---- MODULE Spec2Model ----
(***************************************************************************)
(* A model of the UNO rules engine: Card, Deck, Board, Hand, TurnManager,  *)
(* GameEngine, the GameContext observer and the Game turn loop.            *)
(*                                                                         *)
(* A Python exception that nothing catches ends the process: the model     *)
(* records it as pc = "crashed" and takes no further step.                 *)
(***************************************************************************)
EXTENDS Integers, Sequences, FiniteSets, Bags, TLC

\* ------------------------------------------------------------------ bounds
NumPlayers == 2
MaxStartingHand == 2
MaxShuffleLen == 6

\* --------------------------------------------------------------- constants
NUMBER == "Number"
SKIP == "Skip"
DRAW_TWO == "Draw +2"
REVERSE == "Reverse"
WILD == "Wild"
WILD_DRAW_FOUR == "Wild Draw +4"

RED == "Red"
YELLOW == "Yellow"
GREEN == "Green"
BLUE == "Blue"
COLORLESS == "Colorless"

DRAW == "Draw"
COLOR_CHANGE == "Color Change"
TURN == "Turn"

\* Python's None, for a card, a card value and a chosen color.
None == "None"
NoValue == -1

Players == 0 .. (NumPlayers - 1)

\* Player(name, is_human): the first player is human, the others are NPCs.
is_human_controlled(p) == p = 0

\* ------------------------------------------------------------ card model
NewCard(id, type, color, value) ==
    [id |-> id, type |-> type, color |-> color, value |-> value]

\* Card._effect_types as set by each subclass constructor.
effect_types(c) ==
    CASE c.type = SKIP -> {TURN}
      [] c.type = DRAW_TWO -> {DRAW}
      [] c.type = REVERSE -> {TURN}
      [] c.type = WILD -> {COLOR_CHANGE}
      [] c.type = WILD_DRAW_FOUR -> {DRAW, COLOR_CHANGE}
      [] OTHER -> {}

\* effective_color that answers the card's own color for every kind.
effective_color_Printed(c, ch) == c.color

\* Card.effective_color: the chosen color of a Wild / WildDrawFour when one is
\* set, COLORLESS otherwise; the card's own color for every other kind.
effective_color(c, ch) ==
    IF c.type \in {WILD, WILD_DRAW_FOUR}
    THEN (IF ch[c.id] # None THEN ch[c.id] ELSE COLORLESS)
    ELSE c.color

\* --------------------------------------------------------- configuration
\* Deck configurations (DeckConfiguration subclasses), small ones.
DrawDeck ==
    [FREQUENCY_OF_NUMBER_CARDS |-> << <<5, 1>> >>,
     ACTION_CARDS_PER_COLOR |-> 1,
     WILD_CARDS_PER_TYPE |-> 1,
     DECK_COLORS |-> <<RED, BLUE>>,
     ACTION_CARDS |-> <<DRAW_TWO>>,
     WILD_CARDS |-> <<WILD, WILD_DRAW_FOUR>>]

TurnDeck ==
    [FREQUENCY_OF_NUMBER_CARDS |-> << <<5, 1>> >>,
     ACTION_CARDS_PER_COLOR |-> 1,
     WILD_CARDS_PER_TYPE |-> 1,
     DECK_COLORS |-> <<RED, BLUE>>,
     ACTION_CARDS |-> <<SKIP, REVERSE>>,
     WILD_CARDS |-> << >>]

NumberDeck ==
    [FREQUENCY_OF_NUMBER_CARDS |-> << <<5, 1>>, <<7, 1>> >>,
     ACTION_CARDS_PER_COLOR |-> 1,
     WILD_CARDS_PER_TYPE |-> 1,
     DECK_COLORS |-> <<RED, BLUE>>,
     ACTION_CARDS |-> << >>,
     WILD_CARDS |-> <<WILD>>]

StackDeck ==
    [FREQUENCY_OF_NUMBER_CARDS |-> << <<5, 2>> >>,
     ACTION_CARDS_PER_COLOR |-> 2,
     WILD_CARDS_PER_TYPE |-> 1,
     DECK_COLORS |-> <<RED, BLUE>>,
     ACTION_CARDS |-> <<DRAW_TWO>>,
     WILD_CARDS |-> << >>]

\* A deck too small for a deal of two cards to two players.
TinyDeck ==
    [FREQUENCY_OF_NUMBER_CARDS |-> << <<5, 1>> >>,
     ACTION_CARDS_PER_COLOR |-> 1,
     WILD_CARDS_PER_TYPE |-> 1,
     DECK_COLORS |-> <<RED, BLUE>>,
     ACTION_CARDS |-> << >>,
     WILD_CARDS |-> <<WILD>>]

\* A deck of Number cards with more than 7 cards for every player.
DealDeck ==
    [FREQUENCY_OF_NUMBER_CARDS |-> << <<5, 4 * NumPlayers>> >>,
     ACTION_CARDS_PER_COLOR |-> 1,
     WILD_CARDS_PER_TYPE |-> 1,
     DECK_COLORS |-> <<RED, BLUE>>,
     ACTION_CARDS |-> << >>,
     WILD_CARDS |-> << >>]

DeckConfigs == {DrawDeck, TurnDeck, NumberDeck, StackDeck, TinyDeck}

\* GameRules, the base rules, which StandardRules keeps.
StandardRules ==
    [ALLOW_MULTIPLE_DECKS |-> TRUE,
     ALLOW_FINAL_SPECIAL_CARD |-> TRUE,
     STACKABLE_DRAW_CARDS |-> TRUE,
     WILD_CARD_ALLOW_PICK_COLOR |-> TRUE,
     SKIP_TURN_ON_DRAW |-> FALSE]

\* HardcoreRules
HardcoreRules ==
    [ALLOW_MULTIPLE_DECKS |-> TRUE,
     ALLOW_FINAL_SPECIAL_CARD |-> FALSE,
     STACKABLE_DRAW_CARDS |-> TRUE,
     WILD_CARD_ALLOW_PICK_COLOR |-> TRUE,
     SKIP_TURN_ON_DRAW |-> TRUE]

\* Custom rule classes: a GameRules subclass that overrides one rule.
CustomRules ==
    {[StandardRules EXCEPT !.ALLOW_MULTIPLE_DECKS = FALSE],
     [StandardRules EXCEPT !.ALLOW_FINAL_SPECIAL_CARD = FALSE],
     [StandardRules EXCEPT !.STACKABLE_DRAW_CARDS = FALSE],
     [StandardRules EXCEPT !.WILD_CARD_ALLOW_PICK_COLOR = FALSE],
     [StandardRules EXCEPT !.SKIP_TURN_ON_DRAW = TRUE]}

\* The rule sets a game is built with, each with a starting hand size.
RuleSets ==
    {r @@ [STARTING_HAND_SIZE |-> n] :
        r \in {StandardRules, HardcoreRules} \cup CustomRules,
        n \in 1 .. MaxStartingHand}

\* Rule sets whose STARTING_HAND_SIZE may also be zero or negative, which
\* GameRules does not forbid.
DealRuleSets ==
    {r @@ [STARTING_HAND_SIZE |-> n] :
        r \in {StandardRules, HardcoreRules} \cup CustomRules,
        n \in (0 - MaxStartingHand) .. MaxStartingHand}

\* ------------------------------------------------------------ sequences
RECURSIVE Flatten(_)
Flatten(ss) == IF ss = << >> THEN << >> ELSE Head(ss) \o Flatten(Tail(ss))

Rep(x, n) == [i \in 1 .. n |-> x]

SeqToSet(s) == {s[i] : i \in 1 .. Len(s)}

\* The number of positions of s that hold x.
Occurrences(s, x) == Cardinality({i \in 1 .. Len(s) : s[i] = x})

\* ---------------------------------------------------------- deck builder
\* DeckBuilder.populate_deck, before its shuffle: the cards in creation order,
\* CardFactory numbering them from next_card_id.
NumberSpecs(cfg, color) ==
    Flatten([k \in 1 .. Len(cfg.FREQUENCY_OF_NUMBER_CARDS) |->
        Rep([type |-> NUMBER, color |-> color,
             value |-> cfg.FREQUENCY_OF_NUMBER_CARDS[k][1]],
            cfg.FREQUENCY_OF_NUMBER_CARDS[k][2])])

ActionSpecs(cfg, color) ==
    Flatten([k \in 1 .. Len(cfg.ACTION_CARDS) |->
        Rep([type |-> cfg.ACTION_CARDS[k], color |-> color, value |-> NoValue],
            cfg.ACTION_CARDS_PER_COLOR)])

WildSpecs(cfg) ==
    Flatten([k \in 1 .. Len(cfg.WILD_CARDS) |->
        Rep([type |-> cfg.WILD_CARDS[k], color |-> COLORLESS, value |-> NoValue],
            cfg.WILD_CARDS_PER_TYPE)])

PopulateSpecs(cfg) ==
    Flatten([k \in 1 .. Len(cfg.DECK_COLORS) |->
        NumberSpecs(cfg, cfg.DECK_COLORS[k]) \o ActionSpecs(cfg, cfg.DECK_COLORS[k])])
    \o WildSpecs(cfg)

populate_deck(cfg, next_card_id) ==
    LET s == PopulateSpecs(cfg) IN
    [i \in 1 .. Len(s) |->
        NewCard(next_card_id + i - 1, s[i].type, s[i].color, s[i].value)]

\* random.shuffle: any permutation of the list.
Shuffles(s) ==
    {[i \in 1 .. Len(s) |-> s[f[i]]] : f \in Permutations(1 .. Len(s))}

\* The cuts of the list: the orders a deck longer than MaxShuffleLen starts in.
Cuts(s) ==
    {[i \in 1 .. Len(s) |-> s[((i + k - 1) % Len(s)) + 1]] : k \in 1 .. Len(s)}

\* Deck.shuffle_deck: the orders the model lets the shuffled deck be in.
shuffle_deck(s) == IF Len(s) <= MaxShuffleLen THEN Shuffles(s) ELSE Cuts(s)

\* Python's None where a Card is expected.
NoCard == [id |-> NoValue, type |-> None, color |-> None, value |-> NoValue]

\* ------------------------------------------------------------------ state
VARIABLES
    rules,          \* Game.rules, fixed at construction
    deck_config,    \* Game.deck_config, fixed at construction
    deck,           \* Deck._card_deck, drawn from its end
    board,          \* Board._cards_on_board, the top card last
    hand,           \* Player.hand._cards of each player, as a bag
    chosen,         \* _chosen_color of each Wild / WildDrawFour card, by card id
    current,        \* TurnManager._current
    clockwise,      \* TurnManager._clockwise
    game_active,    \* Game.game_active
    pc,             \* where the program is
    player,         \* the local `player` of Game.play / deal_cards
    card,           \* the card execute_card_play is playing, NoCard outside a play
    handBefore,     \* the size of the player's hand when execute_card_play began
    draw,           \* the locals of the running player_draw_card call
    events,         \* the notify_observers calls of the running turn or deal call
    legal,          \* what validate_play last answered in the card selection loop
    playable_cards  \* the list AI.get_playable_cards built, {} for None

vars == <<legal, playable_cards, rules, deck_config, deck, board, hand, chosen, current, clockwise,
          game_active, pc, player, card, handBefore, draw, events>>

\* ------------------------------------------------------------------- hand
HandSize(h) == BagCardinality(h)

InHand(c, h) == BagIn(c, h)

\* add_card that assigns the list [card] instead of appending to it.
add_card_Replace(h, c) == SetToBag({c})

\* Hand.add_card
add_card(h, c) == h (+) SetToBag({c})

\* Hand.remove_card: list.remove takes out one occurrence.
remove_card(h, c) == h (-) SetToBag({c})

\* The number of decimal digits of n >= 0.
RECURSIVE DecLen(_)
DecLen(n) == IF n < 10 THEN 1 ELSE 1 + DecLen(n \div 10)

RECURSIVE SumTypeLen(_, _)
SumTypeLen(h, S) ==
    IF S = {} THEN 0
    ELSE LET c == CHOOSE x \in S : TRUE IN
         CopiesIn(c, h) * Len(c.type) + SumTypeLen(h, S \ {c})

RECURSIVE SumIndexLen(_)
SumIndexLen(n) == IF n = 0 THEN 0 ELSE DecLen(n - 1) + SumIndexLen(n - 1)

\* len(Hand.show_hand()): show_hand returns a string, "Hand is empty" (13
\* characters) or one line "<index>: <card>" per card joined by newlines; a
\* card prints as 98 characters of padded fields followed by its type name.
ShowHandLen(h) ==
    LET n == HandSize(h) IN
    IF n = 0 THEN 13
    ELSE SumIndexLen(n) + n * (2 + 98) + SumTypeLen(h, BagToSet(h)) + (n - 1)

\* ------------------------------------------------------------------ board
\* Board.show_top_card_on_board
show_top_card_on_board(b) == IF Len(b) = 0 THEN NoCard ELSE b[Len(b)]

\* ---------------------------------------------------------- turn manager
\* get_next_player that answers the current player.
get_next_player_Self(cur, cw) == cur

\* get_next_player that answers the player after the next.
get_next_player_Second(cur, cw) ==
    IF cw THEN (cur + 2) % NumPlayers ELSE (cur - 2) % NumPlayers

\* TurnManager.get_next_player
get_next_player(cur, cw) ==
    IF cw THEN (cur + 1) % NumPlayers ELSE (cur - 1) % NumPlayers

\* end_turn without the wrap-around at the ends of the player list.
end_turn_NoWrap(cur, cw) == IF cw THEN cur + 1 ELSE cur - 1

\* end_turn that passes over one player.
end_turn_Twice(cur, cw) ==
    IF cw THEN (cur + 2) % NumPlayers ELSE (cur - 2) % NumPlayers

\* TurnManager.end_turn: the new index.
end_turn(cur, cw) ==
    IF cw THEN (cur + 1) % NumPlayers ELSE (cur - 1) % NumPlayers

\* skip_turn that leaves the index alone.
skip_turn_Noop(cur, cw) == cur

\* TurnManager.skip_turn calls end_turn.
skip_turn(cur, cw) == end_turn(cur, cw)

\* reverse_play_order that leaves the direction alone.
reverse_play_order_Noop(cw) == cw

\* TurnManager.reverse_play_order: the new direction.
reverse_play_order(cw) == IF cw THEN FALSE ELSE TRUE

\* ------------------------------------------------------------------ cards
\* Card._validate_last_card_allowed: compares the length of the string
\* show_hand() returns with 1.
validate_last_card_allowed(r, h, cur) ==
    IF r.ALLOW_FINAL_SPECIAL_CARD = FALSE
    THEN (IF ShowHandLen(h[cur]) = 1 THEN FALSE ELSE TRUE)
    ELSE TRUE

\* can_execute_effect without the stacking check of the Draw cards.
can_execute_effect_NoStackCheck(c, r, b, h, cur) ==
    LET top_card == show_top_card_on_board(b) IN
    IF c.type = NUMBER THEN TRUE
    ELSE IF top_card = NoCard THEN TRUE
    ELSE IF ~validate_last_card_allowed(r, h, cur) THEN FALSE
    ELSE TRUE

\* can_execute_effect of each Card subclass.
can_execute_effect(c, r, b, h, cur) ==
    LET top_card == show_top_card_on_board(b) IN
    IF c.type = NUMBER THEN TRUE
    ELSE IF top_card = NoCard THEN TRUE
    ELSE IF ~validate_last_card_allowed(r, h, cur) THEN FALSE
    ELSE IF c.type \in {DRAW_TWO, WILD_DRAW_FOUR}
            /\ r.STACKABLE_DRAW_CARDS = FALSE
            /\ DRAW \in effect_types(top_card) THEN FALSE
    ELSE TRUE

\* validate_play with the number match asking for the color as well.
validate_play_NumberNeedsColor(c, r, cfg, b, h, ch, cur) ==
    LET top_card_on_board == show_top_card_on_board(b) IN
    IF top_card_on_board = NoCard THEN TRUE
    ELSE IF effective_color(c, ch) = effective_color(top_card_on_board, ch)
            /\ can_execute_effect(c, r, b, h, cur) THEN TRUE
    ELSE IF c.type \in SeqToSet(cfg.WILD_CARDS)
            /\ can_execute_effect(c, r, b, h, cur) THEN TRUE
    ELSE FALSE

\* ------------------------------------------------------------ game engine
\* GameEngine.validate_play
validate_play(c, r, cfg, b, h, ch, cur) ==
    LET top_card_on_board == show_top_card_on_board(b) IN
    IF top_card_on_board = NoCard THEN TRUE
    ELSE IF effective_color(c, ch) = effective_color(top_card_on_board, ch)
            /\ can_execute_effect(c, r, b, h, cur) THEN TRUE
    ELSE IF c.type = NUMBER /\ c.value = top_card_on_board.value THEN TRUE
    ELSE IF c.type \in SeqToSet(cfg.WILD_CARDS)
            /\ can_execute_effect(c, r, b, h, cur) THEN TRUE
    ELSE FALSE


\* ----------------------------------------------------------------- events
Ev(e, c, p) == [event |-> e, card |-> c, player |-> p]

\* The number of events named e in the log es.
CountEvents(es, e) == Cardinality({i \in 1 .. Len(es) : es[i].event = e})

\* --------------------------------------------------------------- observer
\* GameContext.on_game_event: the exception it raises, None when it returns.
\* The BOARD_CLEARED branch reads data['board'], a key Board never sends (it
\* sends 'board_cards'): KeyError. Every other branch returns.
on_game_event(event) == IF event = "BOARD_CLEARED" THEN "KeyError" ELSE None

\* ------------------------------------------------------------------- deck
\* draw_card that pops the first card of the list.
draw_card_First(d) ==
    IF d # << >>
    THEN [card |-> d[1], deck |-> SubSeq(d, 2, Len(d)),
          evs |-> <<Ev("REMOVE_CARD_FROM_DECK", d[1].id, NoValue)>>]
    ELSE [card |-> NoCard, deck |-> d, evs |-> << >>]

\* draw_card that reports the last card and leaves it in the deck.
draw_card_Peek(d) ==
    IF d # << >>
    THEN [card |-> d[Len(d)], deck |-> d,
          evs |-> <<Ev("REMOVE_CARD_FROM_DECK", d[Len(d)].id, NoValue)>>]
    ELSE [card |-> NoCard, deck |-> d, evs |-> << >>]

\* Deck.draw_card: pops the last card, or returns None on an empty deck.
draw_card(d) ==
    IF d # << >>
    THEN [card |-> d[Len(d)], deck |-> SubSeq(d, 1, Len(d) - 1),
          evs |-> <<Ev("REMOVE_CARD_FROM_DECK", d[Len(d)].id, NoValue)>>]
    ELSE [card |-> NoCard, deck |-> d, evs |-> << >>]

\* clear_all_except_last that leaves no card on the board.
clear_all_except_last_Empty(b) ==
    [cards_to_recycle |-> b,
     board |-> << >>,
     exc |-> on_game_event("BOARD_CLEARED"),
     evs |-> <<Ev("BOARD_CLEARED", NoValue, NoValue)>>]

\* Board.clear_all_except_last: the board becomes [last_card] (also when
\* last_card is None), then the observers are told, then the rest is returned.
clear_all_except_last(b) ==
    LET last_card == show_top_card_on_board(b) IN
    [cards_to_recycle |-> SelectSeq(b, LAMBDA c : c # last_card),
     board |-> <<last_card>>,
     exc |-> on_game_event("BOARD_CLEARED"),
     evs |-> <<Ev("BOARD_CLEARED", NoValue, NoValue)>>]

\* Deck.attempt_recycle_deck: an exception of clear_all_except_last leaves
\* the deck as it was.
attempt_recycle_deck(d, b) ==
    LET r == clear_all_except_last(b) IN
    IF r.exc # None
    THEN [deck |-> d, board |-> r.board, exc |-> r.exc, evs |-> r.evs]
    ELSE [deck |-> d \o r.cards_to_recycle, board |-> r.board, exc |-> None,
          evs |-> r.evs \o [i \in 1 .. Len(r.cards_to_recycle) |->
                      Ev("ADD_CARD_TO_DECK", r.cards_to_recycle[i].id, NoValue)]]

\* GameEngine._handle_empty_deck_scenario. Deck.draw_card returns None on an
\* empty deck and never raises IndexError, so the return of strategy 1 always
\* runs: strategy 2 (ALLOW_MULTIPLE_DECKS, a new deck batch) is never reached.
handle_empty_deck_scenario(d, b) ==
    LET rec == IF Len(d) = 0 THEN attempt_recycle_deck(d, b)
               ELSE [deck |-> d, board |-> b, exc |-> None, evs |-> << >>]
        got == draw_card(rec.deck)
    IN  IF rec.exc # None
        THEN [card |-> NoCard, deck |-> rec.deck, board |-> rec.board,
              exc |-> rec.exc, evs |-> rec.evs]
        ELSE [card |-> got.card, deck |-> got.deck, board |-> rec.board,
              exc |-> None, evs |-> rec.evs \o got.evs]

\* One pass of the loop of GameEngine.player_draw_card, up to the card it got.
single_draw(d, b) ==
    LET first == draw_card(d) IN
    IF first.card # NoCard
    THEN [card |-> first.card, deck |-> first.deck, board |-> b, exc |-> None,
          evs |-> first.evs, recovery |-> FALSE]
    ELSE handle_empty_deck_scenario(d, b) @@ [recovery |-> TRUE]

\* The locals of a player_draw_card call, and what the model remembers of the
\* state it was called in.
NoDraw ==
    [to |-> 0, amount |-> 0, i |-> 0, cards_drawn |-> 0, ret |-> None,
     deck0 |-> << >>, hand0 |-> EmptyBag, board0 |-> << >>,
     recoveries |-> 0, stopped |-> FALSE]

NewDraw(to, amount, ret) ==
    [to |-> to, amount |-> amount, i |-> 0, cards_drawn |-> 0, ret |-> ret,
     deck0 |-> deck, hand0 |-> hand[to], board0 |-> board,
     recoveries |-> 0, stopped |-> FALSE]

\* deal_cards that deals one card whatever count it is given.
cards_per_player_One(n) == 1

\* deal_cards that deals the count it is given, whatever it is.
cards_per_player_AsGiven(n) == n

\* GameEngine.deal_cards: the count it deals.
cards_per_player(n) == IF n <= 0 THEN 7 ELSE n

\* ------------------------------------------------------------------- AI
\* The colors of `colors` that the most cards of S have.
MostCommon(S, colors) ==
    LET count(col) == Cardinality({c \in S : c.color = col}) IN
    {col \in colors : count(col) > 0 /\ \A o \in colors : count(o) <= count(col)}

\* AI.auto_select_color: the most common color of the current player's hand,
\* RED when the hand holds no colored card. Counter.most_common breaks a tie
\* by the order of the hand: any of the tied colors.
auto_select_color(h) ==
    LET colored == {c \in BagToSet(h) : c.color # COLORLESS} IN
    IF colored # {} THEN MostCommon(colored, {RED, YELLOW, GREEN, BLUE})
    ELSE {RED}

\* UserInput.get_color_selection
get_color_selection == {RED, YELLOW, GREEN, BLUE}

\* get_playable_cards that returns the whole hand, validated or not.
get_playable_cards_All(r, cfg, b, h, ch, cur) == BagToSet(h[cur])

\* AI.get_playable_cards: the validated cards of the current player's hand.
get_playable_cards(r, cfg, b, h, ch, cur) ==
    {c \in BagToSet(h[cur]) : validate_play(c, r, cfg, b, h, ch, cur)}

\* AI.pick_card: the cards it may return for the playable cards `cards`.
pick_card(cards, r, b) ==
    LET topcard == show_top_card_on_board(b)
        stackable == {c \in cards : DRAW \in effect_types(c)}
        number_cards == {c \in cards : c.type = NUMBER}
        non_number_cards == {c \in cards : c.type # NUMBER}
        common == MostCommon(cards, {RED, YELLOW, GREEN, BLUE, COLORLESS})
    IN  IF topcard # NoCard /\ DRAW \in effect_types(topcard) /\ stackable # {}
        THEN stackable
        ELSE IF ~r.ALLOW_FINAL_SPECIAL_CARD /\ Cardinality(number_cards) = 1
                /\ Cardinality(cards) = 2 /\ non_number_cards # {}
        THEN non_number_cards
        ELSE {c \in cards : c.color \in common}


\* ------------------------------------------------------------------- Init
\* Game.__init__ up to the populated, shuffled deck: an empty board, empty
\* hands, the turn manager at player 0 going clockwise, the game not active.
Init ==
    /\ rules \in RuleSets
    /\ deck_config \in DeckConfigs
    /\ deck \in shuffle_deck(populate_deck(deck_config, 0))
    /\ board = << >>
    /\ hand = [p \in Players |-> EmptyBag]
    /\ chosen = [i \in 0 .. (Len(populate_deck(deck_config, 0)) - 1) |-> None]
    /\ current = 0
    /\ clockwise = TRUE
    /\ game_active = FALSE
    /\ pc = "deal"
    /\ player = 0
    /\ card = NoCard
    /\ handBefore = 0
    /\ draw = NoDraw
    /\ events = << >>
    /\ legal = None
    /\ playable_cards = {}

\* ------------------------------------------------------------ deal_cards
\* GameEngine.deal_cards, one player of its loop: player_draw_card(player, n).
DealCards ==
    /\ pc = "deal"
    /\ draw' = NewDraw(player, cards_per_player(rules.STARTING_HAND_SIZE), "dealt")
    /\ events' = << >>
    /\ pc' = "draw"
    /\ UNCHANGED <<legal, playable_cards, rules, deck_config, deck, board, hand, chosen, current,
                   clockwise, game_active, player, card, handBefore>>

\* The loop of deal_cards moves to the next player, or Game.__init__ returns.
DealNext ==
    /\ pc = "dealt"
    /\ IF player + 1 < NumPlayers
       THEN player' = player + 1 /\ pc' = "deal"
       ELSE player' = 0 /\ pc' = "constructed"
    /\ UNCHANGED <<legal, playable_cards, rules, deck_config, deck, board, hand, chosen, current,
                   clockwise, game_active, card, handBefore, draw, events>>

\* ------------------------------------------------------ player_draw_card
\* A player_draw_card that swallows the exception of the recovery and tries
\* the same single draw again.
PlayerDrawCard_Retry ==
    /\ pc = "draw"
    /\ LET res == single_draw(deck, board)
           rec == IF res.recovery THEN 1 ELSE 0
       IN  /\ deck' = res.deck
           /\ board' = res.board
           /\ events' = events \o res.evs
           /\ IF res.card # NoCard
              THEN /\ hand' = [hand EXCEPT ![draw.to] = add_card(@, res.card)]
                   /\ draw' = [draw EXCEPT !.i = @ + 1, !.cards_drawn = @ + 1,
                                           !.recoveries = @ + rec]
                   /\ pc' = IF draw.i + 1 = draw.amount THEN draw.ret ELSE "draw"
              ELSE /\ hand' = hand
                   /\ draw' = [draw EXCEPT !.recoveries = @ + rec]
                   /\ pc' = "draw"
    /\ UNCHANGED <<legal, playable_cards, rules, deck_config, chosen, current, clockwise, game_active,
                   player, card, handBefore>>

\* One pass of the loop of GameEngine.player_draw_card: a card is drawn (from
\* the deck or by the recovery), added to the hand and reported, or the loop
\* breaks, or the exception of the recovery leaves the call.
PlayerDrawCard ==
    /\ pc = "draw"
    /\ LET res == single_draw(deck, board)
           rec == IF res.recovery THEN 1 ELSE 0
       IN  /\ deck' = res.deck
           /\ board' = res.board
           /\ IF res.exc # None
              THEN /\ pc' = "crashed"
                   /\ hand' = hand
                   /\ events' = events \o res.evs
                   /\ draw' = [draw EXCEPT !.recoveries = @ + rec]
              ELSE IF res.card # NoCard
              THEN /\ hand' = [hand EXCEPT ![draw.to] = add_card(@, res.card)]
                   /\ events' = events \o res.evs
                                  \o <<Ev("CARD_DRAWN", res.card.id, draw.to)>>
                   /\ draw' = [draw EXCEPT !.i = @ + 1, !.cards_drawn = @ + 1,
                                           !.recoveries = @ + rec]
                   /\ pc' = IF draw.i + 1 = draw.amount THEN draw.ret ELSE "draw"
              ELSE /\ hand' = hand
                   /\ events' = events \o res.evs
                   /\ draw' = [draw EXCEPT !.i = @ + 1, !.recoveries = @ + rec,
                                           !.stopped = TRUE]
                   /\ pc' = draw.ret
    /\ UNCHANGED <<legal, playable_cards, rules, deck_config, chosen, current, clockwise, game_active,
                   player, card, handBefore>>

\* ------------------------------------------------------------- Game.play
\* Game.play is called: the game becomes active and the loop begins.
Play ==
    /\ pc = "constructed"
    /\ game_active' = TRUE
    /\ pc' = "turn"
    /\ draw' = NoDraw
    /\ events' = << >>
    /\ UNCHANGED <<legal, playable_cards, rules, deck_config, deck, board, hand, chosen, current,
                   clockwise, player, card, handBefore>>

\* The top of the loop: the current player becomes the acting player.
BeginTurn ==
    /\ pc = "turn"
    /\ game_active
    /\ player' = current
    /\ pc' = IF is_human_controlled(current) THEN "menu" ELSE "ai"
    /\ events' = << >>
    /\ UNCHANGED <<legal, playable_cards, rules, deck_config, deck, board, hand, chosen, current,
                   clockwise, game_active, card, handBefore, draw>>

\* A main menu that comes back after option 1 instead of ending the turn.
MenuDraw_BackToMenu ==
    /\ pc = "menu"
    /\ draw' = NewDraw(player, 1, "menu")
    /\ pc' = "draw"
    /\ UNCHANGED <<legal, playable_cards, rules, deck_config, deck, board, hand, chosen, current,
                   clockwise, game_active, player, card, handBefore, events>>

\* Game._handle_user_main_menu, option 1: draw one card.
MenuDraw ==
    /\ pc = "menu"
    /\ draw' = NewDraw(player, 1, "endturn")
    /\ pc' = "draw"
    /\ UNCHANGED <<legal, playable_cards, rules, deck_config, deck, board, hand, chosen, current,
                   clockwise, game_active, player, card, handBefore, events>>

\* Option 2: go to the card selection.
MenuPlay ==
    /\ pc = "menu"
    /\ pc' = "select"
    /\ UNCHANGED <<legal, playable_cards, rules, deck_config, deck, board, hand, chosen, current,
                   clockwise, game_active, player, card, handBefore, draw, events>>

\* Option 3: stop_game; the human turn and the loop of play end.
MenuQuit ==
    /\ pc = "menu"
    /\ game_active' = FALSE
    /\ pc' = "done"
    /\ UNCHANGED <<legal, playable_cards, rules, deck_config, deck, board, hand, chosen, current,
                   clockwise, player, card, handBefore, draw, events>>

\* The KeyboardInterrupt handler of Game.play, for an interrupt that arrives
\* while the loop waits between operations: 'c' calls play() again, which
\* restarts the loop; any other answer calls stop_game.
Interrupt ==
    /\ pc \in {"turn", "menu", "select"}
    /\ \E action \in {"c", "s"} :
          IF action = "c"
          THEN game_active' = TRUE /\ pc' = "turn"
          ELSE game_active' = FALSE /\ pc' = "done"
    /\ legal' = None
    /\ UNCHANGED <<playable_cards, rules, deck_config, deck, board, hand, chosen, current,
                   clockwise, player, card, handBefore, draw, events>>

\* An execute_card_play that takes the card out of the hand before the effect.
BeginCardPlay_RemoveFirst(c) ==
    /\ legal' = None
    /\ playable_cards' = {}
    /\ board' = Append(board, c)
    /\ hand' = [hand EXCEPT ![player] = remove_card(@, c)]
    /\ events' = Append(events, Ev("ADD_CARD_TO_BOARD", c.id, NoValue))
    /\ card' = c
    /\ handBefore' = HandSize(hand[player])
    /\ pc' = "effect"
    /\ UNCHANGED <<rules, deck_config, deck, chosen, current, clockwise,
                   game_active, player, draw>>

\* GameEngine.execute_card_play, step 1: the card goes on the board.
BeginCardPlay(c) ==
    /\ legal' = None
    /\ playable_cards' = {}
    /\ board' = Append(board, c)
    /\ events' = Append(events, Ev("ADD_CARD_TO_BOARD", c.id, NoValue))
    /\ card' = c
    /\ handBefore' = HandSize(hand[player])
    /\ pc' = "effect"
    /\ UNCHANGED <<rules, deck_config, deck, hand, chosen, current, clockwise,
                   game_active, player, draw>>

\* Game._human_card_selecion_loop: 'b' goes back to the menu.
SelectCancel ==
    /\ pc = "select"
    /\ pc' = "menu"
    /\ legal' = None
    /\ UNCHANGED <<playable_cards, rules, deck_config, deck, board, hand, chosen, current,
                   clockwise, game_active, player, card, handBefore, draw, events>>

\* A selection loop in which an illegal move ends the player's turn.
SelectIllegal_EndsTurn ==
    /\ pc = "select"
    /\ \E c \in BagToSet(hand[player]) :
          ~validate_play(c, rules, deck_config, board, hand, chosen, current)
    /\ legal' = "False"
    /\ pc' = "endturn"
    /\ UNCHANGED <<playable_cards, rules, deck_config, deck, board, hand, chosen,
                   current, clockwise, game_active, player, card, handBefore,
                   draw, events>>

\* A card validate_play rejects: "Illegal move", the loop asks again.
SelectIllegal ==
    /\ pc = "select"
    /\ \E c \in BagToSet(hand[player]) :
          ~validate_play(c, rules, deck_config, board, hand, chosen, current)
    /\ legal' = "False"
    /\ UNCHANGED <<playable_cards, rules, deck_config, deck, board, hand, chosen,
                   current, clockwise, game_active, pc, player, card,
                   handBefore, draw, events>>

\* A card validate_play accepts is played.
SelectPlay ==
    /\ pc = "select"
    /\ \E c \in BagToSet(hand[player]) :
          /\ validate_play(c, rules, deck_config, board, hand, chosen, current)
          /\ BeginCardPlay(c)

\* A get_playable_cards that filters the hand itself instead of a copy: the
\* cards validate_play rejects leave the hand.
GetPlayableCards_Consuming ==
    /\ pc = "ai"
    /\ playable_cards' =
          get_playable_cards(rules, deck_config, board, hand, chosen, current)
    /\ hand' = [hand EXCEPT ![current] =
                  [c \in playable_cards' |-> CopiesIn(c, hand[current])]]
    /\ pc' = "ai_pick"
    /\ UNCHANGED <<legal, rules, deck_config, deck, board, chosen, current,
                   clockwise, game_active, player, card, handBefore, draw, events>>

\* Game._handle_ai_turn, its call of AI.get_playable_cards: validate_play is
\* evaluated for every card of the current player's hand.
GetPlayableCards ==
    /\ pc = "ai"
    /\ playable_cards' =
          get_playable_cards(rules, deck_config, board, hand, chosen, current)
    /\ pc' = "ai_pick"
    /\ UNCHANGED <<legal, rules, deck_config, deck, board, hand, chosen, current,
                   clockwise, game_active, player, card, handBefore, draw, events>>

\* Game._handle_ai_turn with no playable card: draw one card.
AIDraw ==
    /\ pc = "ai_pick"
    /\ playable_cards = {}
    /\ draw' = NewDraw(player, 1, "endturn")
    /\ pc' = "draw"
    /\ UNCHANGED <<legal, playable_cards, rules, deck_config, deck, board, hand,
                   chosen, current, clockwise, game_active, player, card,
                   handBefore, events>>

\* Game._handle_ai_turn with playable cards: the card pick_card returns is played.
AIPlay ==
    /\ pc = "ai_pick"
    /\ playable_cards # {}
    /\ \E c \in pick_card(playable_cards, rules, board) : BeginCardPlay(c)


\* ---------------------------------------------------------- card effects
\* execute_card_play, step 2: card.execute_effect(game_context).

\* A Number card whose effect passes the turn on.
EffectNumber_EndsTurn ==
    /\ pc = "effect"
    /\ card.type = NUMBER
    /\ current' = end_turn(current, clockwise)
    /\ pc' = "remove"
    /\ UNCHANGED <<legal, playable_cards, rules, deck_config, deck, board, hand,
                   chosen, clockwise, game_active, player, card, handBefore,
                   draw, events>>

\* NumberCard.execute_effect: nothing.
EffectNumber ==
    /\ pc = "effect"
    /\ card.type = NUMBER
    /\ pc' = "remove"
    /\ UNCHANGED <<legal, playable_cards, rules, deck_config, deck, board, hand, chosen, current,
                   clockwise, game_active, player, card, handBefore, draw, events>>

\* SkipCard.execute_effect: tm.skip_turn().
EffectSkip ==
    /\ pc = "effect"
    /\ card.type = SKIP
    /\ current' = skip_turn(current, clockwise)
    /\ events' = Append(events, Ev("PLAYER_TURN_CHANGED", NoValue, current'))
    /\ pc' = "remove"
    /\ UNCHANGED <<legal, playable_cards, rules, deck_config, deck, board, hand, chosen, clockwise,
                   game_active, player, card, handBefore, draw>>

\* A Reverse effect that also moves the current index one step on.
EffectReverse_AndAdvance ==
    /\ pc = "effect"
    /\ card.type = REVERSE
    /\ clockwise' = reverse_play_order(clockwise)
    /\ current' = end_turn(current, clockwise')
    /\ events' = Append(events, Ev("TURN_ORDER_CHANGED", NoValue, NoValue))
    /\ pc' = "remove"
    /\ UNCHANGED <<legal, playable_cards, rules, deck_config, deck, board, hand, chosen,
                   game_active, player, card, handBefore, draw>>

\* ReverseCard.execute_effect: tm.reverse_play_order().
EffectReverse ==
    /\ pc = "effect"
    /\ card.type = REVERSE
    /\ clockwise' = reverse_play_order(clockwise)
    /\ events' = Append(events, Ev("TURN_ORDER_CHANGED", NoValue, NoValue))
    /\ pc' = "remove"
    /\ UNCHANGED <<legal, playable_cards, rules, deck_config, deck, board, hand, chosen, current,
                   game_active, player, card, handBefore, draw>>

\* The color step of WildCard / WildDrawFourCard.execute_effect: with
\* WILD_CARD_ALLOW_PICK_COLOR the current player's choice (asked of a human,
\* computed for an NPC) is stored on the card.
ChooseColor ==
    IF rules.WILD_CARD_ALLOW_PICK_COLOR
    THEN \E selected_color \in (IF is_human_controlled(current)
                                THEN get_color_selection
                                ELSE auto_select_color(hand[current])) :
            chosen' = [chosen EXCEPT ![card.id] = selected_color]
    ELSE chosen' = chosen

\* WildCard.execute_effect
EffectWild ==
    /\ pc = "effect"
    /\ card.type = WILD
    /\ ChooseColor
    /\ pc' = "remove"
    /\ UNCHANGED <<legal, playable_cards, rules, deck_config, deck, board, hand, current, clockwise,
                   game_active, player, card, handBefore, draw, events>>

\* DrawTwoCard.execute_effect up to its call of player_draw_card(next_player, 2).
EffectDrawTwo ==
    /\ pc = "effect"
    /\ card.type = DRAW_TWO
    /\ draw' = NewDraw(get_next_player(current, clockwise), 2, "effect_skip")
    /\ pc' = "draw"
    /\ UNCHANGED <<legal, playable_cards, rules, deck_config, deck, board, hand, chosen, current,
                   clockwise, game_active, player, card, handBefore, events>>

\* A WildDrawFour effect that makes the next player draw before any color
\* is chosen.
EffectWildDrawFour_DrawFirst ==
    /\ pc = "effect"
    /\ card.type = WILD_DRAW_FOUR
    /\ draw' = NewDraw(get_next_player(current, clockwise), 4, "effect_skip")
    /\ pc' = "draw"
    /\ UNCHANGED <<legal, playable_cards, rules, deck_config, deck, board, hand,
                   chosen, current, clockwise, game_active, player, card,
                   handBefore, events>>

\* WildDrawFourCard.execute_effect up to its call of
\* player_draw_card(next_player, 4): the color step comes first.
EffectWildDrawFour ==
    /\ pc = "effect"
    /\ card.type = WILD_DRAW_FOUR
    /\ ChooseColor
    /\ draw' = NewDraw(get_next_player(current, clockwise), 4, "effect_skip")
    /\ pc' = "draw"
    /\ UNCHANGED <<legal, playable_cards, rules, deck_config, deck, board, hand, current, clockwise,
                   game_active, player, card, handBefore, events>>

\* The end of DrawTwoCard / WildDrawFourCard.execute_effect: with
\* SKIP_TURN_ON_DRAW, tm.skip_turn().
EffectSkipOnDraw ==
    /\ pc = "effect_skip"
    /\ IF rules.SKIP_TURN_ON_DRAW
       THEN /\ current' = skip_turn(current, clockwise)
            /\ events' = Append(events, Ev("PLAYER_TURN_CHANGED", NoValue, current'))
       ELSE UNCHANGED <<current, events>>
    /\ pc' = "remove"
    /\ UNCHANGED <<legal, playable_cards, rules, deck_config, deck, board, hand, chosen, clockwise,
                   game_active, player, card, handBefore, draw>>

\* An execute_card_play that takes the card from the hand of the turn
\* manager's current player, whoever that is after the effect.
RemoveCard_FromCurrent ==
    /\ pc = "remove"
    /\ IF InHand(card, hand[current])
       THEN /\ hand' = [hand EXCEPT ![current] = remove_card(@, card)]
            /\ events' = Append(events, Ev("CARD_PLAYED", card.id, current))
            /\ pc' = "endturn"
       ELSE /\ pc' = "crashed"
            /\ UNCHANGED <<hand, events>>
    /\ UNCHANGED <<legal, playable_cards, rules, deck_config, deck, board, chosen, current, clockwise,
                   game_active, player, card, handBefore, draw>>

\* execute_card_play, step 3: the card leaves the hand of the player who
\* played it (list.remove raises ValueError when it is not there), then
\* CARD_PLAYED is sent.
RemoveCard ==
    /\ pc = "remove"
    /\ IF InHand(card, hand[player])
       THEN /\ hand' = [hand EXCEPT ![player] = remove_card(@, card)]
            /\ events' = Append(events, Ev("CARD_PLAYED", card.id, player))
            /\ pc' = "endturn"
       ELSE /\ pc' = "crashed"
            /\ UNCHANGED <<hand, events>>
    /\ UNCHANGED <<legal, playable_cards, rules, deck_config, deck, board, chosen, current, clockwise,
                   game_active, player, card, handBefore, draw>>

\* check_win_condition that ends the game at one card left.
check_win_condition_AtUno(h, active) == IF HandSize(h) <= 1 THEN FALSE ELSE active

\* GameEngine.check_win_condition: the new value of game_active.
check_win_condition(h, active) == IF HandSize(h) = 0 THEN FALSE ELSE active

\* The end of a pass of the loop of Game.play: check_win_condition(player),
\* then tm.end_turn(), then the loop condition.
EndOfTurn ==
    /\ pc = "endturn"
    /\ game_active
    /\ game_active' = check_win_condition(hand[player], game_active)
    /\ current' = end_turn(current, clockwise)
    /\ pc' = IF game_active' THEN "turn" ELSE "done"
    /\ card' = NoCard
    /\ handBefore' = 0
    /\ draw' = NoDraw
    /\ events' = <<Ev("PLAYER_TURN_CHANGED", NoValue, current')>>
    /\ UNCHANGED <<legal, playable_cards, rules, deck_config, deck, board, hand, chosen, clockwise, player>>

Next ==
    \/ DealCards
    \/ DealNext
    \/ PlayerDrawCard
    \/ Play
    \/ BeginTurn
    \/ MenuDraw
    \/ MenuPlay
    \/ MenuQuit
    \/ Interrupt
    \/ SelectCancel
    \/ SelectIllegal
    \/ SelectPlay
    \/ GetPlayableCards
    \/ AIDraw
    \/ AIPlay
    \/ EffectNumber
    \/ EffectSkip
    \/ EffectReverse
    \/ EffectWild
    \/ EffectDrawTwo
    \/ EffectWildDrawFour
    \/ EffectSkipOnDraw
    \/ RemoveCard
    \/ EndOfTurn

Spec == Init /\ [][Next]_vars

\* ------------------------------------------------- Game.__init__ alone
\* The construction of a game, for any STARTING_HAND_SIZE and a deck that
\* covers a deal of 7 cards: populate_deck, then deal_cards.
InitDeal ==
    /\ rules \in DealRuleSets
    /\ deck_config \in {DealDeck, TinyDeck}
    /\ deck \in shuffle_deck(populate_deck(deck_config, 0))
    /\ board = << >>
    /\ hand = [p \in Players |-> EmptyBag]
    /\ chosen = [i \in 0 .. (Len(populate_deck(deck_config, 0)) - 1) |-> None]
    /\ current = 0
    /\ clockwise = TRUE
    /\ game_active = FALSE
    /\ pc = "deal"
    /\ player = 0
    /\ card = NoCard
    /\ handBefore = 0
    /\ draw = NoDraw
    /\ events = << >>
    /\ legal = None
    /\ playable_cards = {}

NextDeal ==
    \/ DealCards
    \/ DealNext
    \/ PlayerDrawCard

DealSpec == InitDeal /\ [][NextDeal]_vars


\* ================================================================ claims
\* Every card a deck of the configuration holds.
AllCards == SeqToSet(populate_deck(deck_config, 0))

TopCard == show_top_card_on_board(board)

CanExecute(c) == can_execute_effect(c, rules, board, hand, current)

ValidatePlay(c) ==
    validate_play(c, rules, deck_config, board, hand, chosen, current)

\* The number of containers' places that hold the card c.
Places(c) ==
    Occurrences(deck, c) + Occurrences(board, c)
    + Cardinality(UNION {{<<p, k>> : k \in 1 .. CopiesIn(c, hand[p])} : p \in Players})

\* A player_draw_card call has just returned to its caller.
DrawReturned == draw.amount > 0 /\ pc = draw.ret

\* A player_draw_card call has ended, by returning or by an exception.
DrawEnded == draw.amount > 0 /\ pc \in {draw.ret, "crashed"}

\* C1: while the program runs, validate_play(C) is true exactly when the board
\* is empty, or C's effective color is the top card's and
\* C.can_execute_effect() holds, or C is a Number card with the top card's
\* value, or C's kind is a configured wild kind and C.can_execute_effect()
\* holds.
C1_ValidatePlayRules ==
    pc # "crashed" =>
    \A c \in AllCards :
        ValidatePlay(c) <=>
            \/ Len(board) = 0
            \/ /\ effective_color(c, chosen) = effective_color(TopCard, chosen)
               /\ CanExecute(c)
            \/ /\ c.type = NUMBER
               /\ c.value = TopCard.value
            \/ /\ c.type \in SeqToSet(deck_config.WILD_CARDS)
               /\ CanExecute(c)

\* A player is choosing a card and holds a Number card of the top card's value
\* and of another color, which validate_play accepts.
C1_Witness ==
    /\ pc \in {"select", "ai"}
    /\ Len(board) > 0
    /\ \E c \in BagToSet(hand[current]) :
          /\ c.type = NUMBER
          /\ c.value = TopCard.value
          /\ c.color # effective_color(TopCard, chosen)
          /\ ValidatePlay(c)

\* C2: no card is in two of Deck, Board and the Hands, nor twice in one of
\* them, in any reachable state, the states inside execute_card_play included.
C2_OneContainer == \A c \in AllCards : Places(c) <= 1

\* C3: with ALLOW_FINAL_SPECIAL_CARD false, a non-empty board and a current
\* player who holds one card and is choosing a card to play,
\* can_execute_effect and validate_play are false for every non-Number card; and no play of a special card onto a non-empty board
\* leaves its player with an empty hand under this rule.
C3_LastSpecialCardRejected ==
    /\ (/\ ~rules.ALLOW_FINAL_SPECIAL_CARD
        /\ pc \in {"select", "ai"}
        /\ Len(board) > 0
        /\ HandSize(hand[current]) = 1)
       => \A c \in AllCards :
             c.type # NUMBER => ~CanExecute(c) /\ ~ValidatePlay(c)
    /\ (/\ ~rules.ALLOW_FINAL_SPECIAL_CARD
        /\ pc = "endturn"
        /\ card # NoCard
        /\ card.type # NUMBER
        /\ Len(board) >= 2)
       => HandSize(hand[player]) > 0

\* C4: with STACKABLE_DRAW_CARDS false and a Draw-category top card,
\* validate_play is false for every DrawTwo and WildDrawFour card; and no two
\* Draw-category cards are adjacent on the board under this rule.
C4_NoStacking ==
    ~rules.STACKABLE_DRAW_CARDS =>
        /\ (Len(board) > 0 /\ DRAW \in effect_types(TopCard))
           => \A c \in AllCards :
                 c.type \in {DRAW_TWO, WILD_DRAW_FOUR} => ~ValidatePlay(c)
        /\ \A i \in 1 .. (Len(board) - 1) :
              ~(DRAW \in effect_types(board[i]) /\ DRAW \in effect_types(board[i + 1]))

\* Stacking is off, the top card is a Draw card and the player choosing a card
\* holds a Draw card that the color rule or the wild rule would let through.
C4_Witness ==
    /\ ~rules.STACKABLE_DRAW_CARDS
    /\ pc \in {"select", "ai"}
    /\ Len(board) > 0
    /\ DRAW \in effect_types(TopCard)
    /\ \E c \in BagToSet(hand[current]) :
          /\ c.type \in {DRAW_TWO, WILD_DRAW_FOUR}
          /\ \/ effective_color(c, chosen) = effective_color(TopCard, chosen)
             \/ c.type \in SeqToSet(deck_config.WILD_CARDS)
          /\ ~ValidatePlay(c)

\* C5: when execute_card_play ends, also after its effect set off a recycle of
\* the board, the card is the top of the board and not in the player's hand,
\* the hand is one card smaller than before and one CARD_PLAYED was sent.
C5_PlayPostcondition ==
    (card # NoCard /\ pc \in {"endturn", "crashed"}) =>
        /\ TopCard = card
        /\ ~InHand(card, hand[player])
        /\ HandSize(hand[player]) = handBefore - 1
        /\ CountEvents(events, "CARD_PLAYED") = 1

\* C6: a single draw that finds the deck empty and k >= 2 cards on the board
\* leaves the board with its former top alone, gives the player one of the
\* k-1 cards under it and leaves the others in the deck.
C6_RecycleRecovers ==
    [][(pc = "draw" /\ deck = << >> /\ Len(board) >= 2) =>
        /\ board' = <<board[Len(board)]>>
        /\ HandSize(hand'[draw.to]) = HandSize(hand[draw.to]) + 1
        /\ \E i \in 1 .. (Len(board) - 1) : InHand(board[i], hand'[draw.to])
        /\ \A i \in 1 .. (Len(board) - 1) :
              board[i] \in SeqToSet(deck') \/ InHand(board[i], hand'[draw.to])
      ]_vars

\* C7: with ALLOW_MULTIPLE_DECKS true a player_draw_card call of n cards ends
\* with n cards added to the hand.
C7_MultipleDecksAlwaysDraws ==
    (rules.ALLOW_MULTIPLE_DECKS /\ DrawEnded) =>
        /\ pc # "crashed"
        /\ draw.cards_drawn = draw.amount
        /\ HandSize(hand[draw.to]) = HandSize(draw.hand0) + draw.amount

\* C8: a player_draw_card call whose recovery finds nothing to recycle ends
\* without an error: it returns with the cards drawn so far, fewer than asked,
\* and the game is as active as before.
C8_ExhaustionIsNotFatal ==
    (DrawEnded /\ draw.recoveries > 0 /\ Len(draw.board0) <= 1) =>
        /\ pc # "crashed"
        /\ draw.stopped
        /\ draw.cards_drawn < draw.amount
        /\ HandSize(hand[draw.to]) = HandSize(draw.hand0) + draw.cards_drawn

\* C9: player_draw_card(player, n) on a deck of exactly n cards returns with
\* the deck empty, those n cards added to the player's hand and in no other
\* container, n CARD_DRAWN events sent and no recovery made.
C9_DrawWholeDeck ==
    (DrawReturned /\ Len(draw.deck0) = draw.amount) =>
        /\ deck = << >>
        /\ hand[draw.to] = draw.hand0 (+) SetToBag(SeqToSet(draw.deck0))
        /\ \A c \in SeqToSet(draw.deck0) :
              /\ Occurrences(board, c) = 0
              /\ \A p \in Players \ {draw.to} : ~InHand(c, hand[p])
        /\ CountEvents(events, "CARD_DRAWN") = draw.amount
        /\ draw.recoveries = 0

\* A draw of two or more cards has returned from a deck that held exactly
\* that many.
C9_Witness ==
    /\ DrawReturned
    /\ draw.amount >= 2
    /\ Len(draw.deck0) = draw.amount

\* The steps that end the game.
WinStep == pc = "endturn" /\ HandSize(hand[player]) = 0
StopStep == pc \in {"turn", "menu", "select"} /\ pc' = "done"

\* C10, as claimed: the game goes from active to inactive only in
\* check_win_condition on a player whose hand is empty.
C10_OnlyWinEndsGame ==
    [][(game_active /\ ~game_active') => WinStep]_vars

\* C10, amended: the game goes from active to inactive only in
\* check_win_condition on a player whose hand is empty, or in stop_game called
\* for the quit option of the main menu or by the KeyboardInterrupt handler;
\* check_win_condition on an empty hand sets the game inactive and on a hand
\* of one card or more leaves game_active as it was.
C10_WinOrStopEndsGame ==
    [][/\ (game_active /\ ~game_active') => (WinStep \/ StopStep)
       /\ WinStep => ~game_active'
       /\ (pc = "endturn" /\ HandSize(hand[player]) >= 1)
          => game_active' = game_active
      ]_vars

\* The game has ended on a player with an empty hand.
C10_Witness ==
    /\ pc = "done"
    /\ ~game_active
    /\ HandSize(hand[player]) = 0

\* The index n steps after p in the direction cw.
StepsFrom(p, cw, n) == IF cw THEN (p + n) % NumPlayers ELSE (p - n) % NumPlayers

\* The pass of the loop of Game.play that played the card ends: check_win_condition
\* and tm.end_turn() have run.
TurnOfCardEnds == pc = "endturn" /\ pc' # "endturn" /\ card # NoCard

\* C11: in every reachable state the turn manager's current index is an
\* integer of 0 .. playerCount - 1, in both directions of play.
C11_IndexInRange == current \in 0 .. (NumPlayers - 1)

\* The index has wrapped from 0 to the last player, going counter-clockwise.
C11_Witness ==
    /\ ~clockwise
    /\ current = NumPlayers - 1
    /\ pc = "turn"
    /\ Len(board) > 0
    /\ board[Len(board)].type = REVERSE

\* C12: a Skip card's play and the end-of-turn of the loop together move the
\* current index 2 steps in the direction of play from the player of the
\* card (1 step by the effect, 1 by the loop); with 2 players the player of
\* the card is current again.
C12_SkipAdvancesTwo ==
    /\ [][(pc = "effect" /\ card.type = SKIP /\ pc' # "effect")
            => current' = StepsFrom(player, clockwise, 1)]_vars
    /\ [][(TurnOfCardEnds /\ card.type = SKIP)
            => /\ current' = StepsFrom(player, clockwise, 2)
               /\ NumPlayers = 2 => current' = player]_vars

\* A Skip card's turn has ended and the game goes on.
C12_Witness ==
    /\ pc = "turn"
    /\ game_active
    /\ Len(board) > 0
    /\ board[Len(board)].type = SKIP
    /\ current = StepsFrom(player, clockwise, 2)

\* C13: the effect of a Reverse card toggles the direction and leaves the
\* current index as it is; reverse_play_order twice gives the direction and
\* the next player of before.
C13_ReverseToggles ==
    /\ [][(pc = "effect" /\ card.type = REVERSE /\ pc' # "effect")
            => /\ clockwise' = ~clockwise
               /\ current' = current]_vars
    /\ [](LET twice == reverse_play_order(reverse_play_order(clockwise))
          IN  /\ twice = clockwise
              /\ reverse_play_order(clockwise) # clockwise
              /\ get_next_player(current, twice)
                    = get_next_player(current, clockwise))

\* A second Reverse card has been played: the direction is clockwise again.
C13_Witness ==
    /\ pc = "remove"
    /\ card.type = REVERSE
    /\ clockwise
    /\ \E i \in 1 .. (Len(board) - 1) : board[i].type = REVERSE

\* The next pass of player_draw_card finds the deck empty and calls the
\* recovery, whose first step is Board.clear_all_except_last.
RecycleCalled == pc = "draw" /\ deck = << >>

\* C14: clear_all_except_last, called on a board of k >= 1 cards, returns the
\* k-1 cards under the top and leaves the board holding its former top card
\* alone.
C14_ClearReturnsRest ==
    (RecycleCalled /\ Len(board) >= 1) =>
        LET r == clear_all_except_last(board) IN
        /\ r.exc = None
        /\ r.cards_to_recycle = SubSeq(board, 1, Len(board) - 1)
        /\ r.board = <<board[Len(board)]>>

\* C15: once a card is on the board the board never holds fewer than one
\* card, and a recycle leaves the top card of the board the same card.
C15_TopCardStays ==
    /\ [][TopCard # NoCard => (Len(board') >= 1 /\ TopCard' # NoCard)]_vars
    /\ [][RecycleCalled => show_top_card_on_board(board') = TopCard]_vars

\* A recycle has cut a board of two or more cards down to its top card.
C15_Witness ==
    /\ draw.recoveries > 0
    /\ Len(draw.board0) >= 2
    /\ board = <<draw.board0[Len(draw.board0)]>>

\* The last n cards of the list s, as a bag.
LastCards(s, n) == SetToBag({s[i] : i \in (Len(s) - n + 1) .. Len(s)})

\* The number of cards the effect of a Draw card makes the next player draw.
DrawAmount(c) == IF c.type = DRAW_TWO THEN 2 ELSE 4

C17_SkipOnDrawAdvance ==
    [][(TurnOfCardEnds /\ card.type \in {DRAW_TWO, WILD_DRAW_FOUR}) =>
          IF rules.SKIP_TURN_ON_DRAW
          THEN current' = StepsFrom(player, clockwise, 2)
          ELSE /\ current' = StepsFrom(player, clockwise, 1)
               /\ current' = draw.to]_vars

\* With SKIP_TURN_ON_DRAW the turn of a Draw card has ended: the player who
\* drew is passed over and the game goes on.
C17_Witness ==
    /\ rules.SKIP_TURN_ON_DRAW
    /\ pc = "turn"
    /\ game_active
    /\ Len(board) > 0
    /\ DRAW \in effect_types(board[Len(board)])
    /\ current = StepsFrom(player, clockwise, 2)

\* The color step of the effect of the Wild or WildDrawFour card being played
\* is over.
ColorStepDone ==
    /\ card.type \in {WILD, WILD_DRAW_FOUR}
    /\ pc \in {"draw", "effect_skip", "remove", "endturn", "crashed"}

\* C18: after the effect of a Wild or WildDrawFour card, with
\* WILD_CARD_ALLOW_PICK_COLOR the card holds a chosen color, which is its
\* effective color; without the rule the card holds no chosen color and its
\* effective color is Colorless.
C18_ChosenColor ==
    ColorStepDone =>
        IF rules.WILD_CARD_ALLOW_PICK_COLOR
        THEN /\ chosen[card.id] \in {RED, YELLOW, GREEN, BLUE}
             /\ effective_color(card, chosen) = chosen[card.id]
        ELSE /\ chosen[card.id] = None
             /\ effective_color(card, chosen) = COLORLESS

\* A Wild card's effect has stored a color under WILD_CARD_ALLOW_PICK_COLOR.
C18_Witness ==
    /\ rules.WILD_CARD_ALLOW_PICK_COLOR
    /\ pc = "remove"
    /\ card.type = WILD
    /\ chosen[card.id] # None

\* C19: evaluating validate_play (and through it can_execute_effect), for the
\* cards of an NPC's hand in get_playable_cards or for the card a human
\* selected, leaves the deck, the board, every hand, the current index, the
\* direction, the chosen colors and the game-active flag as they were.
C19_ValidationIsPure ==
    [][((pc = "ai" /\ pc' = "ai_pick") \/ (pc = "select" /\ legal' = "False"))
          => UNCHANGED <<deck, board, hand, current, clockwise, chosen,
                         game_active>>]_vars

\* get_playable_cards has evaluated the cards of a hand on a non-empty board,
\* accepting one and rejecting another.
C19_Witness ==
    /\ pc = "ai_pick"
    /\ Len(board) > 0
    /\ playable_cards # {}
    /\ playable_cards # BagToSet(hand[current])

\* C20: when validate_play rejects the card a human selected the answer is
\* false, no card moves, the turn does not advance, and the same player is
\* still current and still in the selection loop.
C20_IllegalMoveChangesNothing ==
    /\ [][(pc = "select" /\ legal' = "False")
            => UNCHANGED <<deck, board, hand, chosen, current, clockwise,
                           game_active, player, pc, card>>]_vars
    /\ [](legal = "False" =>
            /\ pc = "select"
            /\ game_active
            /\ current = player)

\* A human's card was rejected and the hand holds a card that is legal.
C20_Witness ==
    /\ legal = "False"
    /\ pc = "select"
    /\ \E c \in BagToSet(hand[player]) : ValidatePlay(c)

\* C21: every card execute_card_play is called with, in a human turn or an
\* NPC turn, is in the hand of the current player, whose turn it is, and
\* validate_play is true for it in the state the play starts from.
C21_PlayedCardIsLegal ==
    [][(pc \in {"select", "ai_pick"} /\ pc' = "effect") =>
          /\ current = player
          /\ InHand(card', hand[current])
          /\ validate_play(card', rules, deck_config, board, hand, chosen, current)
      ]_vars

\* An NPC holding two or more cards has played one on a non-empty board.
C21_Witness ==
    /\ pc = "effect"
    /\ ~is_human_controlled(player)
    /\ Len(board) >= 2
    /\ HandSize(hand[player]) >= 2

\* C22: get_next_player changes neither the current index nor the direction,
\* and the player it answers is the current player after one end_turn, in
\* both directions.
C22_NextPlayerIsPeek ==
    /\ [](/\ get_next_player(current, clockwise) = end_turn(current, clockwise)
          /\ get_next_player(current, ~clockwise) = end_turn(current, ~clockwise)
          /\ get_next_player(current, clockwise) \in 0 .. (NumPlayers - 1))
    /\ [][(pc = "effect" /\ pc' = "draw") =>
            /\ UNCHANGED <<current, clockwise>>
            /\ draw'.to = end_turn(current, clockwise)]_vars

\* A Draw effect has asked get_next_player who draws.
C22_Witness ==
    /\ pc = "draw"
    /\ draw.ret = "effect_skip"
    /\ draw.i = 0
    /\ draw.to = end_turn(current, clockwise)
    /\ current = player

\* The deck Game.__init__ populates holds enough cards for the deal.
DeckCoversDeal ==
    Len(populate_deck(deck_config, 0))
        >= NumPlayers * cards_per_player(rules.STARTING_HAND_SIZE)

\* C23: deal_cards with a positive count and a deck of at least
\* |players| * count cards serves the players in list order, each one getting
\* all its cards before the next gets any, and leaves every player with count
\* cards and the deck |players| * count cards smaller.
C23_DealInOrder ==
    (DeckCoversDeal /\ rules.STARTING_HAND_SIZE > 0) =>
        /\ pc \in {"deal", "draw", "dealt"} /\ ~game_active =>
              /\ \A p \in Players :
                    /\ p < player => HandSize(hand[p]) = rules.STARTING_HAND_SIZE
                    /\ p > player => HandSize(hand[p]) = 0
              /\ HandSize(hand[player]) <= rules.STARTING_HAND_SIZE
              /\ pc = "deal" => HandSize(hand[player]) = 0
              /\ pc = "dealt" => HandSize(hand[player]) = rules.STARTING_HAND_SIZE
        /\ pc = "constructed" =>
              /\ \A p \in Players : HandSize(hand[p]) = rules.STARTING_HAND_SIZE
              /\ Len(deck) = Len(populate_deck(deck_config, 0))
                                - NumPlayers * rules.STARTING_HAND_SIZE

\* The deal of two cards to every player is over.
C23_Witness ==
    /\ pc = "constructed"
    /\ rules.STARTING_HAND_SIZE = 2
    /\ \A p \in Players : HandSize(hand[p]) = 2

\* C24: draw_card on an empty deck answers None, raises nothing and leaves the
\* deck empty; on a non-empty deck it removes and answers one card, the last
\* of the list, which the pass of player_draw_card gives to the player.
C24_DrawCardContract ==
    /\ [](pc = "draw" =>
            LET r == draw_card(deck) IN
            IF deck = << >>
            THEN r.card = NoCard /\ r.deck = << >>
            ELSE /\ r.card = deck[Len(deck)]
                 /\ r.deck = SubSeq(deck, 1, Len(deck) - 1))
    /\ [][(pc = "draw" /\ deck # << >>) =>
            /\ deck' = SubSeq(deck, 1, Len(deck) - 1)
            /\ hand'[draw.to] = hand[draw.to] (+) SetToBag({deck[Len(deck)]})]_vars

\* draw_card is about to be called on an empty deck, by a player_draw_card
\* call that began with cards in the deck.
C24_Witness ==
    /\ pc = "draw"
    /\ deck = << >>
    /\ draw.cards_drawn > 0

\* The effect of the card being played runs, or has just run.
InEffect ==
    /\ card # NoCard
    /\ \/ pc \in {"effect", "draw", "effect_skip", "remove"}
       \/ pc = "crashed" /\ draw.ret = "effect_skip"

\* C25: in execute_card_play the card goes on the board, then its effect
\* runs, then the card leaves the hand: while the effect runs, with its
\* draws, recycles and turn changes, the card is the top of the board and
\* still in the player's hand, and it is out of the hand once the call ends.
C25_PlayStepOrder ==
    /\ InEffect => (TopCard = card /\ InHand(card, hand[player]))
    /\ (pc = "endturn" /\ card # NoCard) =>
            (TopCard = card /\ ~InHand(card, hand[player]))

\* The draw of a Draw card's effect is over, the card still in the hand.
C25_Witness ==
    /\ pc = "effect_skip"
    /\ draw.cards_drawn = 2
    /\ TopCard = card
    /\ InHand(card, hand[player])

\* The cards a recycle of the board b takes: those under its top card.
UnderTop(b) == SeqToSet(SubSeq(b, 1, Len(b) - 1))

\* C26: when the recovery recycles the cards under the top of the board it
\* shuffles the deck before the retry draw: the retry succeeds and each of
\* the recycled cards is a card it can give.
C26_RecycleShuffles ==
    (RecycleCalled /\ Len(board) >= 3) =>
        \A c \in UnderTop(board) :
            \E outcome \in {handle_empty_deck_scenario(deck, board)} :
                /\ outcome.exc = None
                /\ outcome.card = c

\* C27: clear_all_except_last on an empty board returns no cards and leaves
\* the board empty, its top card absent; a recycle attempted before any card
\* was played puts nothing on the board.
C27_ClearEmptyBoard ==
    /\ []((RecycleCalled /\ board = << >>) =>
            LET r == clear_all_except_last(board) IN
            /\ r.exc = None
            /\ r.cards_to_recycle = << >>
            /\ r.board = << >>)
    /\ [][(RecycleCalled /\ board = << >>) => board' = << >>]_vars

\* The effect of the WildDrawFour being played is past its color step.
InDrawFour ==
    /\ card.type = WILD_DRAW_FOUR
    /\ pc \in {"draw", "effect_skip"}

\* C28: the WildDrawFour effect stores the color choice, then makes the next
\* player draw 4 cards, then skips the turn under SKIP_TURN_ON_DRAW: during
\* the draw the color is stored and the current index is still the player of
\* the card, whose next player is the one who draws; the index moves only
\* after the draw, and only under the rule.
C28_DrawFourStepOrder ==
    /\ [](InDrawFour =>
            /\ rules.WILD_CARD_ALLOW_PICK_COLOR => chosen[card.id] # None
            /\ current = player
            /\ draw.amount = 4
            /\ draw.to = get_next_player(player, clockwise))
    /\ [][(card.type = WILD_DRAW_FOUR /\ pc = "effect_skip") =>
            /\ draw.i = 4 \/ draw.stopped
            /\ current' = IF rules.SKIP_TURN_ON_DRAW
                          THEN end_turn(current, clockwise) ELSE current
            /\ UNCHANGED <<chosen, hand, deck>>]_vars

\* Under both rules a WildDrawFour has had its color chosen, its four cards
\* drawn and the turn skipped.
C28_Witness ==
    /\ card.type = WILD_DRAW_FOUR
    /\ pc = "remove"
    /\ rules.WILD_CARD_ALLOW_PICK_COLOR
    /\ rules.SKIP_TURN_ON_DRAW
    /\ draw.cards_drawn = 4
    /\ chosen[card.id] # None
    /\ current = draw.to

\* The ids of the cards of a list, and of a hand.
IdsOf(cards) == {cards[i].id : i \in 1 .. Len(cards)}
IdsInHand(h) == {c.id : c \in BagToSet(h)}

\* One more notification has been sent, of the event e.
Notified(e) ==
    /\ events' # events
    /\ events' # << >>
    /\ events'[Len(events')].event = e

\* C29: a notification is sent after the change it reports: the card of an
\* ADD_CARD_TO_BOARD is on the board, the card of a REMOVE_CARD_FROM_DECK is
\* out of the deck, the card of a CARD_DRAWN is in the hand of its player, the
\* card of a CARD_PLAYED is on the board and out of the hand of its player, a
\* PLAYER_TURN_CHANGED comes with the index moved and a TURN_ORDER_CHANGED with
\* the direction changed.
C29_NotifyAfterMutation ==
    /\ [](\A i \in 1 .. Len(events) :
            LET e == events[i] IN
            /\ e.event = "ADD_CARD_TO_BOARD" => e.card \in IdsOf(board)
            /\ e.event = "REMOVE_CARD_FROM_DECK" => e.card \notin IdsOf(deck)
            /\ e.event = "CARD_DRAWN" => e.card \in IdsInHand(hand[e.player])
            /\ e.event = "CARD_PLAYED" =>
                  /\ e.card \in IdsOf(board)
                  /\ e.card \notin IdsInHand(hand[e.player]))
    /\ [][Notified("PLAYER_TURN_CHANGED") =>
            /\ current' = end_turn(current, clockwise)
            /\ events'[Len(events')].player = current']_vars
    /\ [][Notified("TURN_ORDER_CHANGED") => clockwise' # clockwise]_vars

\* A Draw card's play is over: cards were drawn and the card was played, each
\* with its notification.
C29_Witness ==
    /\ pc = "endturn"
    /\ CountEvents(events, "CARD_PLAYED") = 1
    /\ CountEvents(events, "ADD_CARD_TO_BOARD") = 1
    /\ CountEvents(events, "CARD_DRAWN") >= 2
    /\ CountEvents(events, "REMOVE_CARD_FROM_DECK") >= 2

\* C30: the play of a Number card changes neither the current index, nor the
\* direction, nor the deck, nor a chosen color, nor the hand of another
\* player, and takes only the card out of the hand of its player; and
\* can_execute_effect of a Number card is true in every state.
C30_NumberHasNoEffect ==
    /\ [][(card'.type = NUMBER /\ pc # "endturn") =>
            /\ UNCHANGED <<current, clockwise, deck, chosen>>
            /\ \A p \in Players \ {player} : hand'[p] = hand[p]
            /\ hand'[player] = IF pc' = "endturn"
                               THEN hand[player] (-) SetToBag({card})
                               ELSE hand[player]]_vars
    /\ [](\A c \in AllCards : c.type = NUMBER => CanExecute(c))

\* A Number card has been played on a non-empty board.
C30_Witness ==
    /\ pc = "endturn"
    /\ card.type = NUMBER
    /\ Len(board) >= 2
    /\ ~InHand(card, hand[player])

\* C31: the direction and the index are independent. A step that changes the
\* direction is the reverse_play_order of a Reverse card and leaves the
\* current index alone; a step that changes the current index is an end_turn
\* or a skip_turn and leaves the direction alone; the steps of end_turn (the
\* loop) and of skip_turn (a Skip card, a Draw card with SKIP_TURN_ON_DRAW)
\* never change the direction.
C31_DirectionIndexIndependent ==
    /\ [][clockwise' # clockwise
            => /\ pc = "effect" /\ card.type = REVERSE
               /\ clockwise' = reverse_play_order(clockwise)
               /\ current' = current]_vars
    /\ [][current' # current
            => /\ clockwise' = clockwise
               /\ \/ pc = "endturn" /\ current' = end_turn(current, clockwise)
                  \/ /\ pc \in {"effect", "effect_skip"}
                     /\ current' = skip_turn(current, clockwise)]_vars
    /\ [][(pc \in {"endturn", "effect_skip"} \/ (pc = "effect" /\ card.type = SKIP))
            => clockwise' = clockwise]_vars

\* A Skip card's skip_turn has moved the index while the play goes
\* counter-clockwise: the direction a Reverse card set is still there.
C31_Witness ==
    /\ pc = "remove"
    /\ card.type = SKIP
    /\ ~clockwise
    /\ current = StepsFrom(player, FALSE, 1)
    /\ \E i \in 1 .. (Len(board) - 1) : board[i].type = REVERSE

\* The number of places the cards of S take in the deck, on the board and in
\* the hands together.
RECURSIVE SumPlaces(_)
SumPlaces(S) ==
    IF S = {} THEN 0
    ELSE LET c == CHOOSE x \in S : TRUE IN Places(c) + SumPlaces(S \ {c})

TotalCards == SumPlaces(AllCards)

\* C32: no card is ever lost. Every card the deck was populated with is in
\* the deck, on the board or in some hand, and the three hold together as
\* many cards as the deck was populated with (no new batch is ever added).
C32_NoCardLost ==
    /\ \A c \in AllCards : Places(c) >= 1
    /\ TotalCards >= Cardinality(AllCards)

\* C33: every Wild or WildDrawFour card that is in the deck or in a hand has
\* the effective color Colorless: a chosen color is on a card only while the
\* card lies on the board and in no other place.
C33_WildColorlessOffBoard ==
    \A c \in AllCards :
        (/\ c.type \in {WILD, WILD_DRAW_FOUR}
         /\ \/ Occurrences(deck, c) > 0
            \/ \E p \in Players : InHand(c, hand[p]))
        => effective_color(c, chosen) = COLORLESS

\* The CARD_DRAWN notifications of this turn for cards the acting player got.
OwnDraws ==
    Cardinality({i \in 1 .. Len(events) :
                    events[i].event = "CARD_DRAWN" /\ events[i].player = player})

\* What the acting player did in the pass of the loop that is about to end:
\* one executed card play and no draw, or one draw request of one card and
\* no play.
OneAction ==
    \/ /\ CountEvents(events, "CARD_PLAYED") = 1
       /\ OwnDraws = 0
       /\ card # NoCard
       /\ HandSize(hand[player]) = handBefore - 1
    \/ /\ CountEvents(events, "CARD_PLAYED") = 0
       /\ card = NoCard
       /\ draw.to = player /\ draw.amount = 1 /\ draw.ret = "endturn"
       /\ OwnDraws = draw.cards_drawn
       /\ OwnDraws <= 1
       /\ HandSize(hand[player]) = HandSize(draw.hand0) + OwnDraws

C35_RemoveAndWinCheckOnPlayer ==
    /\ [][(pc' = "effect" /\ pc # "effect")
            => /\ player = current
               /\ InHand(card', hand[player])]_vars
    /\ [][(pc \in {"effect", "draw", "effect_skip", "remove", "endturn"})
            => player' = player]_vars
    /\ [][pc = "remove"
            => /\ pc' = "endturn"
               /\ InHand(card, hand[player])
               /\ hand' = [hand EXCEPT ![player] = remove_card(@, card)]
               /\ events' = Append(events, Ev("CARD_PLAYED", card.id, player))]_vars
    /\ [][(pc = "endturn" /\ pc' # "endturn")
            => /\ game_active' = (HandSize(hand[player]) # 0)
               /\ pc' = IF HandSize(hand[player]) = 0 THEN "done" ELSE "turn"]_vars

\* The effect of the last card of a player has moved the current index to
\* another player, who still holds cards; the card has left the hand of the
\* player who played it and the win check is about to be made.
C35_Witness ==
    /\ pc = "endturn"
    /\ card # NoCard
    /\ (card.type = SKIP \/ (DRAW \in effect_types(card) /\ rules.SKIP_TURN_ON_DRAW))
    /\ current # player
    /\ HandSize(hand[player]) = 0
    /\ HandSize(hand[current]) > 0

\* C36: a player_draw_card(player, amount) call makes at most `amount`
\* single-draw attempts and then ends. Every pass of its loop is one attempt:
\* it either gets a card and counts it, or it gets none and the call ends
\* there (by the break, or by the exception of the recovery); an attempt
\* runs the recovery at most once and no attempt adds a deck batch; the
\* loop is never entered again after an attempt that got no card, so it
\* does not loop on an empty deck.
C36_DrawTerminates ==
    /\ [](/\ draw.i \in 0 .. draw.amount
          /\ draw.cards_drawn = draw.i - (IF draw.stopped THEN 1 ELSE 0)
          /\ draw.recoveries <= 1
          /\ pc = "draw" => /\ draw.i < draw.amount
                            /\ draw.recoveries = 0
                            /\ ~draw.stopped)
    /\ [][pc = "draw"
            => /\ draw'.recoveries \in {draw.recoveries, draw.recoveries + 1}
               /\ Len(deck') <= Len(deck)
               /\ \/ /\ HandSize(hand'[draw.to]) = HandSize(hand[draw.to]) + 1
                     /\ draw'.i = draw.i + 1
                     /\ pc' = IF draw'.i = draw.amount THEN draw.ret ELSE "draw"
                  \/ /\ hand' = hand
                     /\ pc' \in {draw.ret, "crashed"}]_vars
    /\ [][(pc = "draw" /\ deck = << >>) => pc' # "draw"]_vars

\* A call for 4 cards has ended after 3 attempts: the third found the deck
\* empty, ran the recovery once and got no card.
C36_Witness ==
    /\ draw.amount = 4
    /\ draw.cards_drawn = 2
    /\ draw.recoveries = 1
    /\ pc # "draw"
    /\ deck = << >>

\* C37: deal_cards called with a count of zero or less asks for 7 cards for
\* every player, in list order; when the deal is over every player holds 7
\* cards, and the deck has given NumPlayers * 7 cards.
C37_DealDefaultsToSeven ==
    /\ [][(pc = "deal" /\ rules.STARTING_HAND_SIZE <= 0)
            => /\ pc' = "draw"
               /\ draw'.to = player
               /\ draw'.amount = 7]_vars
    /\ []((pc = "constructed" /\ rules.STARTING_HAND_SIZE <= 0)
            => /\ \A p \in Players : HandSize(hand[p]) = 7
               /\ Len(deck) = Len(populate_deck(deck_config, 0)) - NumPlayers * 7)

\* A game built with STARTING_HAND_SIZE 0: the deal is over and every player
\* holds 7 cards.
C37_Witness ==
    /\ pc = "constructed"
    /\ rules.STARTING_HAND_SIZE = 0
    /\ \A p \in Players : HandSize(hand[p]) = 7

====
